---- MODULE Spec2Model ----
(***************************************************************************)
(* State-machine model of the upload / list / download / delete front-end  *)
(* (FileUpload.tsx, FileList.tsx, DownloadFolder.tsx and its earlier        *)
(* version).  Every handler is split at its await points: one action per    *)
(* synchronous stretch of a handler.  A request's effect on the record      *)
(* store or the object store takes place in the action that receives its    *)
(* response.  The collaborators answer ok or error (they do not throw);     *)
(* the browser's fetch may also throw.                                      *)
(***************************************************************************)
EXTENDS Integers, Sequences, FiniteSets, TLC

(* ------------------------------ bounds -------------------------------- *)
\* identifiers (crypto.randomUUID / database ids) handed out in one behaviour
MaxUuid == 4
\* files in one folder selection
MaxFiles == 3
\* pending 1500 ms reset timers of the folder page
MaxTimers == 2
\* submissions of the folder-aware upload form that pass validation; calls
\* of downloadFile that may go past its guard during one run
MaxRuns == 2
\* loadFiles calls of the file list in flight at one time
MaxLoads == 3

(* --------------------------- program constants ------------------------ *)
\* the fixed override code, compared inline as a string
OVERRIDE == "41134"

(* ------------------------------ values -------------------------------- *)
NoData == [none |-> TRUE]
NoFile == [nofile |-> TRUE]

\* file names and storage keys are sequences of one-character strings
\* (identifiers are one token)
Name_x_t == <<"x", ".", "t">>
Name_y == <<"y">>
File1 == [name |-> Name_x_t, bytes |-> "B1", rel |-> <<"d", "/", "a">>]
File2 == [name |-> Name_y, bytes |-> "B2", rel |-> <<"d", "/", "b">>]
File3 == [name |-> <<"z", ".", "t">>, bytes |-> "B3", rel |-> <<"d", "/", "c">>]
File4 == [name |-> <<"w", ".", "t">>, bytes |-> "B4", rel |-> <<"d", "/", "e">>]
File5 == [name |-> <<"v", ".", "t">>, bytes |-> "B5", rel |-> <<"d", "/", "f">>]
AllFiles == <<File1, File2, File3, File4, File5>>

Titles == {"t1", "t2"}
SecretCodes == {"a", "b"}
\* codes a user may type when asking for access
SuppliedCodes == {"a", "b", OVERRIDE}

Uuid(n) == ToString(n)

\* upload forms (browser tabs) running handleUpload side by side
Clients == {"c1", "c2"}

\* an entry of the history of inserted records: the row, and the bytes and
\* name of the file it was made from
History(rec, bytes, name) == [rec |-> rec, bytes |-> bytes, name |-> name]

(* ---------------------------- pure helpers ---------------------------- *)
RECURSIVE LastDot(_, _)
LastDot(name, i) ==
  IF i = 0 THEN 0
  ELSE IF name[i] = "." THEN i ELSE LastDot(name, i - 1)

\* file.name.split(".").pop()
FileExt(name) == SubSeq(name, LastDot(name, Len(name)) + 1, Len(name))

\* `${crypto.randomUUID()}.${fileExt}`
SingleFilePath(uuid, name) == <<uuid>> \o <<".">> \o FileExt(name)

\* `folders/${folderId}`
FolderPath(folderId) == <<"folders", "/", folderId>>

\* the member key built without the folder identifier
MemberPath_NoFolderId(folderId, rel) == <<"folders", "/">> \o rel

\* `folders/${folderId}/${relativePath}`
MemberPath(folderId, rel) == FolderPath(folderId) \o <<"/">> \o rel

IsPrefix(p, k) == Len(p) <= Len(k) /\ SubSeq(k, 1, Len(p)) = p

\* storage.list(prefix): the entries directly under prefix/
ListEntries(objs, prefix) ==
  { k[Len(prefix) + 2] : k \in { q \in DOMAIN objs :
        IsPrefix(prefix \o <<"/">>, q) /\ Len(q) >= Len(prefix) + 2 } }

\* Math.round(x) for x = 100 * done / total >= 0: floor(x + 1/2)
MathRound100(done, total) == (200 * done + total) \div (2 * total)

MapPut(f, k, v) == [x \in DOMAIN f \cup {k} |-> IF x = k THEN v ELSE f[x]]
MapDel(f, k) == [x \in DOMAIN f \ {k} |-> f[x]]
EmptyMap == [x \in {} |-> NoData]

(* ------------------------------ state --------------------------------- *)
VARIABLES
  records,     \* record store: id -> record of shared_files
  objects,     \* object store (bucket "files"): key -> bytes
  created,     \* history: every record ever inserted, id -> record
  nextUuid,    \* next fresh identifier
  flVariant,   \* which version of the FileList component is deployed
  pageVariant, \* which version of the DownloadFolder page is deployed
  route,       \* which part of the application this behaviour exercises
               \* ("index", "folder", or one version of the upload form)
  dl,          \* FileList.downloadFile: the run in progress / last run
  del,         \* FileList.handleDelete: the run in progress / last run
  page,        \* DownloadFolder page state
  up1,         \* FileUpload (single file, duplicate-title check), per client
  up2,         \* FileUpload (folder-aware version)
  fl           \* FileList: search text, loadFiles calls in flight, list shown

vars == <<records, objects, created, nextUuid, flVariant, pageVariant, route,
          dl, del, page, up1, up2, fl>>

FLVariants == {"FL1", "FL2", "FL3", "FLU"}
PageVariants == {"DF", "P0"}
Guarded == {"FL2", "FL3"}

(* ------------------------- collaborators ------------------------------ *)
\* .from("shared_files").select(...).eq("id", id).single(): the row, or an
\* error when the request fails or no row has that id
SelectSingle(id, failed) ==
  IF failed \/ id \notin DOMAIN records THEN NoData ELSE records[id]

\* .select("id").eq("title", t).limit(1): the rows found
SelectByTitle(t) == { i \in DOMAIN records : records[i].title = t }

\* storage.download(key) / createSignedUrl(key): fails when the request
\* fails or there is no object at key
ObjectReadable(key, failed) == ~failed /\ key \in DOMAIN objects

(* ------------------------- the access checks -------------------------- *)
\* FileList.tsx:67  if (data.secret_code !== secretCode) -> denied
AccessFL1(code, data) == ~(data.secret_code # code)

\* the test with its negation lost
AccessFL2_Inverted(code, data) == code # data.secret_code /\ code # OVERRIDE

\* FileList.tsx:231 if (secretCode !== data.secret_code && secretCode !== "41134")
AccessFL2(code, data) == ~(code # data.secret_code /\ code # OVERRIDE)

\* FileList.tsx:446 (iframe version), same test
AccessFL3(code, data) == ~(code # data.secret_code /\ code # OVERRIDE)

\* FileUpload.tsx:657 (FileList with delete) if (data.secret_code !== secretCode)
AccessFLU(code, data) == ~(data.secret_code # code)

\* FileUpload.tsx:592 if (deleteCode !== data.secret_code && deleteCode !== "41134")
\* the delete handler without its code comparison
AccessDelete_NoCheck(code, data) == TRUE

AccessDelete(code, data) == ~(code # data.secret_code /\ code # OVERRIDE)

\* DownloadFolder.tsx:46 / earlier version :43
AccessPage(code, data) == ~(code # data.secret_code /\ code # OVERRIDE)

DownloadAccess(variant, code, data) ==
  CASE variant = "FL1" -> AccessFL1(code, data)
    [] variant = "FL2" -> AccessFL2(code, data)
    [] variant = "FL3" -> AccessFL3(code, data)
    [] variant = "FLU" -> AccessFLU(code, data)

(* --------------------- FileList.downloadFile -------------------------- *)
DlIdle == [pc |-> "idle", id |-> "", filename |-> <<>>, code |-> "",
           data |-> NoData, outcome |-> "none", ios |-> FALSE,
           saved |-> NoData, opened |-> FALSE, toast |-> "none",
           isDownloading |-> FALSE, entered |-> 0, refused |-> FALSE]

\* the user picks an entry of the displayed list, types a code and presses
\* Download; the handler issues the record lookup; ios tells whether the
\* browser's user agent is an iPad / iPhone / iPod one
DownloadFile_Click(id, code, ios) ==
  /\ route = "index"
  /\ dl.pc = "idle"
  /\ id \in DOMAIN created
  /\ ios \in BOOLEAN
  /\ dl' = [DlIdle EXCEPT !.pc = "lookup", !.id = id,
                          !.filename = created[id].rec.filename, !.code = code,
                          !.ios = ios, !.entered = 1,
                          !.isDownloading = (flVariant \in Guarded)]
  /\ UNCHANGED <<records, objects, created, nextUuid, flVariant, pageVariant,
                 route, fl, del, page, up1, up2>>

\* a call that goes past the first line whatever the flag says
PassesGuard_NoGuard(d) == TRUE

\* if (isDownloading) return;
PassesGuard(d) == ~d.isDownloading

\* downloadFile is called again while a run of a guarded version is in
\* progress: the call returns at its first line (refused), or enters
\* (entered counts the calls of this run's time that went past the guard)
DownloadFile_ReClick ==
  /\ route = "index"
  /\ flVariant \in Guarded
  /\ dl.pc # "idle"
  /\ dl.entered < MaxRuns
  /\ dl' = IF PassesGuard(dl)
            THEN [dl EXCEPT !.entered = @ + 1, !.isDownloading = TRUE]
            ELSE [dl EXCEPT !.refused = TRUE]
  /\ UNCHANGED <<records, objects, created, nextUuid, flVariant, pageVariant,
                 route, fl, del, page, up1, up2>>

\* the lookup answers: error toast, access denied, or the next request
DownloadFile_Lookup(failed) ==
  /\ dl.pc = "lookup"
  /\ LET data == SelectSingle(dl.id, failed) IN
     IF data = NoData
     THEN dl' = [dl EXCEPT !.pc = "idle", !.outcome = "error",
                           !.toast = "Failed to verify access",
                           !.isDownloading = FALSE]
     ELSE IF ~DownloadAccess(flVariant, dl.code, data)
     THEN dl' = [dl EXCEPT !.pc = "idle", !.outcome = "denied",
                           !.toast = "Access Denied",
                           !.isDownloading = FALSE]
     ELSE dl' = [dl EXCEPT !.data = data, !.outcome = "granted",
                           !.pc = IF flVariant = "FL1" THEN "download"
                                  ELSE IF flVariant = "FLU"
                                  THEN (IF dl.ios THEN "signedUrl" ELSE "download")
                                  ELSE "signedUrl"]
  /\ UNCHANGED <<records, objects, created, nextUuid, flVariant, pageVariant,
                 route, fl, del, page, up1, up2>>

\* storage.download(data.file_path) answers (FL1, FLU off iOS)
DownloadFile_Storage(failed) ==
  /\ dl.pc = "download"
  /\ IF ~ObjectReadable(dl.data.file_path, failed)
     THEN dl' = [dl EXCEPT !.pc = "idle", !.toast = "Failed to download file"]
     ELSE dl' = [dl EXCEPT !.pc = "idle", !.toast = "none",
                           !.saved = [bytes |-> objects[dl.data.file_path],
                                      filename |-> dl.filename]]
  /\ UNCHANGED <<records, objects, created, nextUuid, flVariant, pageVariant,
                 route, fl, del, page, up1, up2>>

\* createSignedUrl(data.file_path, ttl) answers (FL2, FL3, FLU on iOS)
DownloadFile_SignedUrl(failed) ==
  /\ dl.pc = "signedUrl"
  /\ IF ~ObjectReadable(dl.data.file_path, failed)
     THEN dl' = [dl EXCEPT !.pc = "idle", !.isDownloading = FALSE,
                           !.toast = "Failed to create download link"]
     ELSE CASE flVariant = "FLU" ->
                 dl' = [dl EXCEPT !.pc = "idle", !.opened = TRUE,
                                  !.toast = "File Access Granted"]
            [] flVariant = "FL2" ->
                 dl' = [dl EXCEPT !.pc = "fetch"]
            [] OTHER ->
                 \* iframe and anchor are pointed at the signed URL
                 dl' = [dl EXCEPT !.pc = "idle", !.opened = TRUE,
                                  !.isDownloading = FALSE,
                                  !.toast = "Download Started"]
  /\ UNCHANGED <<records, objects, created, nextUuid, flVariant, pageVariant,
                 route, fl, del, page, up1, up2>>

\* fetch(signedUrl) settles (FL2): a response (the object, or the storage
\* service's error body when the link expired or the object is gone), or a
\* thrown error; response.ok is not looked at
DownloadFile_Fetch(result) ==
  /\ dl.pc = "fetch"
  /\ result \in {"ok", "errorResponse", "throw"}
  /\ result = "ok" => dl.data.file_path \in DOMAIN objects
  /\ CASE result = "throw" ->
            dl' = [dl EXCEPT !.pc = "idle", !.opened = TRUE,
                             !.isDownloading = FALSE,
                             !.toast = "Download Notice"]
       [] OTHER ->
            dl' = [dl EXCEPT !.pc = "idle", !.isDownloading = FALSE,
                             !.toast = "File download started",
                             !.saved = [bytes |-> IF result = "ok"
                                                  THEN objects[dl.data.file_path]
                                                  ELSE "ErrorBody",
                                        filename |-> dl.filename]]
  /\ UNCHANGED <<records, objects, created, nextUuid, flVariant, pageVariant,
                 route, fl, del, page, up1, up2>>

(* ----------------------- FileList.loadFiles -------------------------- *)
\* the characters of a title
TitleChars(t) ==
  CASE t = "t1" -> <<"t", "1">>
    [] t = "t2" -> <<"t", "2">>
    [] OTHER -> <<>>

\* texts the user may have in the search box
SearchTexts == {<<>>, <<"t">>, <<"T", "1">>, <<"2">>, <<"1", "t">>}

Lower(ch) == IF ch = "T" THEN "t" ELSE ch

LowerAll(str) == [k \in 1..Len(str) |-> Lower(str[k])]

\* title ILIKE %q%: q occurs in the title, letter case set aside
Ilike(title, q) ==
  \E k \in 0..(Len(title) - Len(q)) :
     SubSeq(LowerAll(title), k + 1, k + Len(q)) = LowerAll(q)

\* the rows the query of loadFiles finds: all rows when the search text is
\* empty, else the rows whose title matches; the rows are modelled as the set
\* of their ids (the order by created_at and the limit of ten rows of two
\* of the versions play no part with the few rows of the model)
SelectIlike(q) ==
  IF q = <<>> THEN DOMAIN records
  ELSE { i \in DOMAIN records : Ilike(TitleChars(records[i].title), q) }

\* the component after its first render: no rows, the effect has called
\* loadFiles with the empty search text
FlMounted == [searchQuery |-> <<>>, pending |-> << <<>> >>, files |-> {},
              failed |-> FALSE]

\* the component once that first loadFiles call has answered with rows
FlLoaded(rows) == [searchQuery |-> <<>>, pending |-> <<>>, files |-> rows,
                   failed |-> FALSE]

\* loadFiles(): the query is built from the search text of this render and
\* sent; pending lists the search texts of the calls in flight
LoadFiles(f) == [f EXCEPT !.pending = Append(@, f.searchQuery)]

\* the user changes the search text; the effect on [searchQuery] calls
\* loadFiles
SetSearchQuery(q) ==
  /\ route = "index"
  /\ q # fl.searchQuery
  /\ Len(fl.pending) < MaxLoads
  /\ fl' = LoadFiles([fl EXCEPT !.searchQuery = q, !.failed = FALSE])
  /\ UNCHANGED <<records, objects, created, nextUuid, flVariant, pageVariant,
                 route, dl, del, page, up1, up2>>

\* the answer of the i-th call in flight is applied as it arrives
SetFiles(f, i) == [f EXCEPT !.files = SelectIlike(f.pending[i])]

\* one of the calls in flight answers, in any order: error toast, or
\* setFiles(data || [])
LoadFiles_Response(i, failed) ==
  /\ i \in 1..Len(fl.pending)
  /\ LET rest == [k \in 1..(Len(fl.pending) - 1) |->
                    IF k < i THEN fl.pending[k] ELSE fl.pending[k + 1]]
     IN fl' = IF failed
              THEN [fl EXCEPT !.pending = rest, !.failed = TRUE]
              ELSE [SetFiles(fl, i) EXCEPT !.pending = rest]
  /\ UNCHANGED <<records, objects, created, nextUuid, flVariant, pageVariant,
                 route, dl, del, page, up1, up2>>

(* --------------------- FileList.handleDelete -------------------------- *)
DelIdle == [pc |-> "idle", id |-> "", code |-> "", data |-> NoData,
            outcome |-> "none", toast |-> "none"]

\* the delete dialog is confirmed for a listed entry with the typed code
HandleDelete_Click(id, code) ==
  /\ flVariant = "FLU"
  /\ del.pc = "idle"
  /\ id \in DOMAIN created
  /\ del' = [DelIdle EXCEPT !.pc = "lookup", !.id = id, !.code = code]
  /\ UNCHANGED <<records, objects, created, nextUuid, flVariant, pageVariant,
                 route, fl, dl, page, up1, up2>>

HandleDelete_Lookup(failed) ==
  /\ del.pc = "lookup"
  /\ LET data == SelectSingle(del.id, failed) IN
     IF data = NoData
     THEN del' = [del EXCEPT !.pc = "idle", !.outcome = "error",
                             !.toast = "Failed to verify access"]
     ELSE IF ~AccessDelete(del.code, data)
     THEN del' = [del EXCEPT !.pc = "idle", !.outcome = "denied",
                             !.toast = "Access Denied"]
     ELSE del' = [del EXCEPT !.pc = "remove", !.outcome = "granted",
                             !.data = data]
  /\ UNCHANGED <<records, objects, created, nextUuid, flVariant, pageVariant,
                 route, fl, dl, page, up1, up2>>

\* storage.remove([data.file_path]) answers; removing a key that holds no
\* object is not an error
HandleDelete_Remove(failed) ==
  /\ del.pc = "remove"
  /\ IF failed
     THEN /\ del' = [del EXCEPT !.pc = "idle",
                                !.toast = "Failed to delete file from storage"]
          /\ UNCHANGED objects
     ELSE /\ del' = [del EXCEPT !.pc = "dbdelete"]
          /\ objects' = MapDel(objects, del.data.file_path)
  /\ UNCHANGED <<records, created, nextUuid, flVariant, pageVariant,
                 route, fl, dl, page, up1, up2>>

\* .delete().eq("id", fileToDelete.id) answers; after the success toast the
\* handler calls loadFiles()
HandleDelete_DbDelete(failed) ==
  /\ del.pc = "dbdelete"
  /\ IF failed
     THEN /\ del' = [del EXCEPT !.pc = "idle",
                                !.toast = "Failed to delete file record"]
          /\ UNCHANGED records
          /\ UNCHANGED fl
     ELSE /\ del' = [del EXCEPT !.pc = "idle",
                                !.toast = "File deleted successfully"]
          /\ records' = MapDel(records, del.id)
          /\ fl' = LoadFiles(fl)
  /\ UNCHANGED <<objects, created, nextUuid, flVariant, pageVariant,
                 route, dl, page, up1, up2>>

(* ----------------------- DownloadFolder page -------------------------- *)
\* state after the first render, before the effect runs checkAccess;
\* nList / nArchive count the handleDownload runs waiting for the listing /
\* for the archive response, timers the armed reset timers
PageMounted(folderId, code) ==
  [pc |-> "mounted", folderId |-> folderId, code |-> code,
   folderInfo |-> NoData, isLoading |-> TRUE, isError |-> FALSE,
   isGeneratingZip |-> FALSE, nList |-> 0, nArchive |-> 0, timers |-> 0,
   progressMessage |-> "Verifying folder access...", toast |-> "none",
   savedZip |-> FALSE, outcome |-> "none"]

\* the download button is rendered
ButtonOffered(p) == ~p.isLoading /\ ~p.isError /\ ~p.isGeneratingZip

\* useEffect: checkAccess up to its first await
CheckAccess_Run ==
  /\ route = "folder"
  /\ page.pc = "mounted"
  /\ IF page.folderId = "" \/ page.code = ""
     THEN page' = [page EXCEPT !.pc = "ready", !.isError = TRUE,
                               !.isLoading = FALSE]
     ELSE page' = [page EXCEPT !.pc = "check"]
  /\ UNCHANGED <<records, objects, created, nextUuid, flVariant, pageVariant,
                 route, fl, dl, del, up1, up2>>

\* the folder lookup answers
CheckAccess_Lookup(failed) ==
  /\ page.pc = "check"
  /\ LET data == SelectSingle(page.folderId, failed) IN
     IF data = NoData
     THEN page' = [page EXCEPT !.pc = "ready", !.isError = TRUE,
                               !.isLoading = FALSE, !.outcome = "error"]
     ELSE IF ~AccessPage(page.code, data)
     THEN page' = [page EXCEPT !.pc = "ready", !.isError = TRUE,
                               !.isLoading = FALSE, !.outcome = "denied"]
     ELSE IF pageVariant = "DF" /\ ~data.is_folder
     THEN page' = [page EXCEPT !.pc = "ready", !.isError = TRUE,
                               !.isLoading = FALSE, !.outcome = "notFolder"]
     ELSE page' = [page EXCEPT !.pc = "ready", !.folderInfo = data,
                               !.isLoading = FALSE, !.outcome = "granted"]
  /\ UNCHANGED <<records, objects, created, nextUuid, flVariant, pageVariant,
                 route, fl, dl, del, up1, up2>>

\* what the finally block does: DownloadFolder.tsx arms a 1500 ms timer
\* that clears isGeneratingZip, the earlier version clears it at once
PageFinally(p) ==
  IF pageVariant = "DF"
  THEN [p EXCEPT !.timers = p.timers + 1]
  ELSE [p EXCEPT !.isGeneratingZip = FALSE]

\* the button is pressed: handleDownload up to its first await
HandleDownload_Click ==
  /\ route = "folder"
  /\ page.pc = "ready"
  /\ ButtonOffered(page)
  /\ page.folderInfo # NoData
  /\ page.nList + page.nArchive + page.timers < MaxTimers
  /\ page' = [page EXCEPT !.isGeneratingZip = TRUE, !.savedZip = FALSE,
                          !.toast = "none",
                          !.nList = IF pageVariant = "DF" THEN @ + 1 ELSE @,
                          !.nArchive = IF pageVariant = "DF" THEN @ ELSE @ + 1,
                          !.progressMessage =
                             IF pageVariant = "DF"
                             THEN "Listing files in folder..."
                             ELSE "Preparing your folder for download..."]
  /\ UNCHANGED <<records, objects, created, nextUuid, flVariant, pageVariant,
                 route, fl, dl, del, up1, up2>>

\* storage.list(folderInfo.file_path) answers (DownloadFolder.tsx)
HandleDownload_List(failed) ==
  /\ page.nList > 0
  /\ LET entries == ListEntries(objects, page.folderInfo.file_path)
         p == [page EXCEPT !.nList = @ - 1] IN
     IF failed
     THEN page' = PageFinally([p EXCEPT
                     !.progressMessage = "Error creating ZIP file. Try again later.",
                     !.toast = "Download Failed"])
     ELSE IF entries = {}
     THEN page' = PageFinally([p EXCEPT
                     !.toast = "Empty Folder", !.isGeneratingZip = FALSE])
     ELSE page' = [p EXCEPT !.nArchive = @ + 1,
                     !.progressMessage = "Creating ZIP archive..."]
  /\ UNCHANGED <<records, objects, created, nextUuid, flVariant, pageVariant,
                 route, fl, dl, del, up1, up2>>

\* fetch(/api/download-folder?folderId=&code=) settles
HandleDownload_Archive(result) ==
  /\ page.nArchive > 0
  /\ result \in {"ok", "notOk", "throw"}
  /\ LET p == [page EXCEPT !.nArchive = @ - 1] IN
     IF result = "ok"
     THEN page' = PageFinally([p EXCEPT !.savedZip = TRUE,
                     !.progressMessage = "Download complete!",
                     !.toast = IF pageVariant = "DF" THEN "Success" ELSE "none"])
     ELSE page' = PageFinally([p EXCEPT
                     !.progressMessage =
                        IF pageVariant = "DF"
                        THEN "Error creating ZIP file. Try again later."
                        ELSE "Error creating ZIP file. Try downloading files individually.",
                     !.toast = IF pageVariant = "DF" THEN "Download Failed"
                               ELSE "none"])
  /\ UNCHANGED <<records, objects, created, nextUuid, flVariant, pageVariant,
                 route, fl, dl, del, up1, up2>>

\* a 1500 ms timer armed by a finally block fires
HandleDownload_Timer ==
  /\ page.timers > 0
  /\ page' = [page EXCEPT !.timers = page.timers - 1,
                          !.isGeneratingZip = FALSE]
  /\ UNCHANGED <<records, objects, created, nextUuid, flVariant, pageVariant,
                 route, fl, dl, del, up1, up2>>

(* ------------------- the access part of the application --------------- *)
\* a record store and object store as uploads leave them: one single-file
\* record (secret "a"), one folder record (secret "b") with two members and
\* one folder record (secret "a") without any stored member
StoredFile ==
  [id |-> Uuid(1), title |-> "t1", filename |-> Name_x_t,
   file_path |-> SingleFilePath(Uuid(2), Name_x_t), secret_code |-> "a",
   is_folder |-> FALSE, file_count |-> 0]

StoredFolder ==
  [id |-> Uuid(3), title |-> "t2", filename |-> <<"t2">>,
   file_path |-> FolderPath(Uuid(3)), secret_code |-> "b",
   is_folder |-> TRUE, file_count |-> 2]

\* a folder none of whose member uploads succeeded
StoredEmptyFolder ==
  [id |-> Uuid(4), title |-> "t1", filename |-> <<"t1">>,
   file_path |-> FolderPath(Uuid(4)), secret_code |-> "a",
   is_folder |-> TRUE, file_count |-> 1]

StoredRecords ==
  (Uuid(1) :> StoredFile) @@ (Uuid(3) :> StoredFolder)
  @@ (Uuid(4) :> StoredEmptyFolder)

StoredObjects ==
  (StoredFile.file_path :> File1.bytes)
  @@ (MemberPath(Uuid(3), File1.rel) :> File1.bytes)
  @@ (MemberPath(Uuid(3), File2.rel) :> File2.bytes)

\* submitted: what the submission being handled, or the last one refused,
\* found in the form (see FormState)
UpIdle1 == [pc |-> "idle", file |-> NoFile, title |-> "", secretCode |-> "",
            filePath |-> <<>>, dup |-> FALSE, isUploading |-> FALSE,
            titleError |-> FALSE, toast |-> "none", submitted |-> "none",
            inserted |-> 0]

\* files / isFolder ... uploadProgress are the component's state; the rest
\* describes the run: submitted is what the last submission found in the
\* form (see FormState), issued lists the member uploads in the order they were
\* issued, issuedAt[k] is the number of member uploads that had settled when
\* the k-th was issued, reported lists the values given to setUploadProgress
\* by the loop, inserted counts the rows the run of the last submission put
\* into the record store
UpIdle2 == [pc |-> "idle", files |-> <<>>, title |-> "", secretCode |-> "",
            isFolder |-> FALSE, isUploading |-> FALSE, uploadProgress |-> 0,
            folderId |-> "", filePath |-> <<>>, totalFiles |-> 0,
            filesProcessed |-> 0, inflight |-> {}, issued |-> <<>>,
            issuedAt |-> <<>>, failedFiles |-> {}, reported |-> <<>>,
            toast |-> "none", runs |-> 0, submitted |-> "none",
            inserted |-> 0]

\* folderId / code of the page URL; "" stands for a missing parameter
PageIds == {"", Uuid(1), Uuid(3), Uuid(4), Uuid(5)}
PageCodes == {"", "a", "b", OVERRIDE}

\* route "index": the page with the file list is open (downloadFile and,
\* in the version that has it, handleDelete); route "folder": the folder
\* download page is open while another client may delete records
InitAccess ==
  /\ records = StoredRecords
  /\ objects = StoredObjects
  /\ created = [i \in DOMAIN StoredRecords |->
                  History(StoredRecords[i], File1.bytes, File1.name)]
  /\ nextUuid = 5
  /\ flVariant \in FLVariants
  /\ pageVariant \in PageVariants
  /\ route \in {"index", "folder"}
  /\ dl = DlIdle
  /\ del = DelIdle
  /\ page \in { PageMounted(f, c) : f \in PageIds, c \in PageCodes }
  /\ route = "index" => page = PageMounted("", "") /\ pageVariant = "DF"
  /\ route = "folder" => flVariant = "FLU"
  /\ up1 = [c \in Clients |-> UpIdle1]
  /\ up2 = UpIdle2
  /\ fl = FlLoaded(DOMAIN StoredRecords)

NextAccess ==
  \/ \E id \in DOMAIN created, code \in SuppliedCodes, ios \in BOOLEAN :
        DownloadFile_Click(id, code, ios)
  \/ DownloadFile_ReClick
  \/ \E failed \in BOOLEAN : DownloadFile_Lookup(failed)
  \/ \E failed \in BOOLEAN : DownloadFile_Storage(failed)
  \/ \E failed \in BOOLEAN : DownloadFile_SignedUrl(failed)
  \/ \E result \in {"ok", "errorResponse", "throw"} : DownloadFile_Fetch(result)
  \/ \E id \in DOMAIN created, code \in SuppliedCodes : HandleDelete_Click(id, code)
  \/ \E failed \in BOOLEAN : HandleDelete_Lookup(failed)
  \/ \E failed \in BOOLEAN : HandleDelete_Remove(failed)
  \/ \E failed \in BOOLEAN : HandleDelete_DbDelete(failed)
  \/ \E i \in 1..MaxLoads, failed \in BOOLEAN : LoadFiles_Response(i, failed)
  \/ CheckAccess_Run
  \/ \E failed \in BOOLEAN : CheckAccess_Lookup(failed)
  \/ HandleDownload_Click
  \/ \E failed \in BOOLEAN : HandleDownload_List(failed)
  \/ \E result \in {"ok", "notOk", "throw"} : HandleDownload_Archive(result)
  \/ HandleDownload_Timer

SpecAccess == InitAccess /\ [][NextAccess]_vars

\* the file list from its first render on, under changes of the search text
InitList ==
  /\ records = StoredRecords
  /\ objects = StoredObjects
  /\ created = [i \in DOMAIN StoredRecords |->
                  History(StoredRecords[i], File1.bytes, File1.name)]
  /\ nextUuid = 5
  /\ flVariant \in FLVariants
  /\ pageVariant = "DF"
  /\ route = "index"
  /\ dl = DlIdle
  /\ del = DelIdle
  /\ page = PageMounted("", "")
  /\ up1 = [c \in Clients |-> UpIdle1]
  /\ up2 = UpIdle2
  /\ fl = FlMounted

NextList ==
  \/ \E q \in SearchTexts : SetSearchQuery(q)
  \/ \E i \in 1..MaxLoads, failed \in BOOLEAN : LoadFiles_Response(i, failed)

SpecList == InitList /\ [][NextList]_vars

(* ----------------------- access: properties --------------------------- *)
CodeAccepted(id, code) ==
  id \in DOMAIN created
  /\ (code = created[id].rec.secret_code \/ code = OVERRIDE)

\* C1: a download of record r with supplied code c is denied unless c is
\* r's stored secret_code or the override code: no downloadFile run is past
\* the access check, has a storage read / signed-URL request / fetch in
\* flight, has saved or opened anything, and no folder page holds folderInfo
\* or has a listing or archive request in flight, with a code that is neither
C1_DeniedUnlessCodeMatches ==
  /\ (dl.outcome = "granted" \/ dl.pc \in {"download", "signedUrl", "fetch"}
        \/ dl.saved # NoData \/ dl.opened)
       => CodeAccepted(dl.id, dl.code)
  /\ (page.outcome = "granted" \/ page.folderInfo # NoData
        \/ page.nList > 0 \/ page.nArchive > 0 \/ page.savedZip)
       => CodeAccepted(page.folderId, page.code)

\* a download that reached the access check with a code that is neither the
\* stored one nor the override code, under a version that knows the override
C1_Witness ==
  /\ flVariant = "FL2"
  /\ dl.outcome = "denied"
  /\ ~CodeAccepted(dl.id, dl.code)

\* C2: whenever an access check is reached with the override code (the
\* record was found), the run proceeds past it: downloadFile in every
\* version, handleDelete and the folder page's checkAccess
C2_OverrideGrantsEverywhere ==
  /\ (dl.code = OVERRIDE /\ dl.outcome \in {"granted", "denied"})
       => dl.outcome = "granted"
  /\ (del.code = OVERRIDE /\ del.outcome \in {"granted", "denied"})
       => del.outcome = "granted"
  /\ (page.code = OVERRIDE /\ page.outcome \in {"granted", "denied"})
       => page.outcome = "granted"

\* C3: in the FileList version that has both, handleDelete and downloadFile
\* decide alike for the same record and the same supplied code
C3_DeleteAndDownloadAgree ==
  (/\ flVariant = "FLU"
   /\ dl.outcome \in {"granted", "denied"}
   /\ del.outcome \in {"granted", "denied"}
   /\ dl.id = del.id
   /\ dl.code = del.code)
    => dl.outcome = del.outcome

(* ------------- FileUpload.handleUpload (single file) ------------------ *)
\* what a submission found in the form: "incomplete" when no file is
\* selected or the title or the secret code is empty
FormState(noFile, title, code) ==
  IF noFile \/ title = "" \/ code = "" THEN "incomplete" ELSE "complete"

\* if (!file || !title || !secretCode)
MissingInformation(file, title, code) ==
  file = NoFile \/ title = "" \/ code = ""

\* the form is submitted: validation, then the duplicate-title query
HandleUpload_Submit(c, file, title, code) ==
  /\ route \in {"index", "form"}
  /\ up1[c].pc = "idle"
  /\ IF MissingInformation(file, title, code)
     THEN up1' = [up1 EXCEPT ![c] = [UpIdle1 EXCEPT
                     !.titleError = up1[c].titleError,
                     !.submitted = FormState(file = NoFile, title, code),
                     !.toast = "Missing information"]]
     ELSE up1' = [up1 EXCEPT ![c] = [UpIdle1 EXCEPT
                     !.submitted = FormState(file = NoFile, title, code),
                     !.pc = "check", !.file = file, !.title = title,
                     !.secretCode = code,
                     !.dup = (SelectByTitle(title) # {})]]
  /\ UNCHANGED <<records, objects, created, nextUuid, flVariant, pageVariant,
                 route, fl, dl, del, page, up2>>

\* checkForDuplicateTitle: false on a query error, else data.length > 0
CheckForDuplicateTitle(title, failed) ==
  IF failed THEN FALSE ELSE SelectByTitle(title) # {}

\* the query answers; a duplicate is rejected, otherwise the storage upload
\* is issued under a fresh key
HandleUpload_Checked(c, failed) ==
  /\ up1[c].pc = "check"
  /\ IF CheckForDuplicateTitle(up1[c].title, failed)
     THEN /\ up1' = [up1 EXCEPT ![c] = [UpIdle1 EXCEPT
                        !.titleError = TRUE, !.toast = "Duplicate title"]]
          /\ UNCHANGED nextUuid
     ELSE /\ nextUuid <= MaxUuid
          /\ up1' = [up1 EXCEPT ![c].pc = "upload", ![c].isUploading = TRUE,
                        ![c].filePath =
                           SingleFilePath(Uuid(nextUuid), up1[c].file.name)]
          /\ nextUuid' = nextUuid + 1
  /\ UNCHANGED <<records, objects, created, flVariant, pageVariant,
                 route, fl, dl, del, page, up2>>

\* storage.upload(filePath, file) answers (no upsert: an existing key fails)
HandleUpload_Stored(c, failed) ==
  /\ up1[c].pc = "upload"
  /\ IF failed \/ up1[c].filePath \in DOMAIN objects
     THEN /\ up1' = [up1 EXCEPT ![c] = [UpIdle1 EXCEPT !.toast = "Error"]]
          /\ UNCHANGED objects
     ELSE /\ up1' = [up1 EXCEPT ![c].pc = "insert"]
          /\ objects' = MapPut(objects, up1[c].filePath, up1[c].file.bytes)
  /\ UNCHANGED <<records, created, nextUuid, flVariant, pageVariant,
                 route, fl, dl, del, page, up2>>

\* the row with its path built a second time, from another identifier
FileRecord_FreshPath(id, u) ==
  [id |-> id, title |-> u.title, filename |-> u.file.name,
   file_path |-> SingleFilePath(id, u.file.name),
   secret_code |-> u.secretCode, is_folder |-> FALSE, file_count |-> 0]

\* the row handleUpload inserts for a single file
FileRecord(id, u) ==
  [id |-> id, title |-> u.title, filename |-> u.file.name,
   file_path |-> u.filePath, secret_code |-> u.secretCode,
   is_folder |-> FALSE, file_count |-> 0]

\* insert(...) answers; the record store puts no constraint on title
HandleUpload_Inserted(c, failed) ==
  /\ up1[c].pc = "insert"
  /\ IF failed
     THEN /\ up1' = [up1 EXCEPT ![c] = [UpIdle1 EXCEPT !.toast = "Error"]]
          /\ UNCHANGED <<records, created, nextUuid>>
     ELSE /\ nextUuid <= MaxUuid
          /\ LET id == Uuid(nextUuid)
                 rec == FileRecord(id, up1[c]) IN
             /\ records' = MapPut(records, id, rec)
             /\ created' = MapPut(created, id,
                              History(rec, up1[c].file.bytes, up1[c].file.name))
          /\ nextUuid' = nextUuid + 1
          /\ up1' = [up1 EXCEPT ![c] = [UpIdle1 EXCEPT !.toast = "Success!",
                                                       !.inserted = 1]]
  /\ UNCHANGED <<objects, flVariant, pageVariant, route, fl, dl, del, page, up2>>

InitUpload ==
  /\ records = EmptyMap
  /\ objects = EmptyMap
  /\ created = EmptyMap
  /\ nextUuid = 1
  /\ flVariant = "FL1"
  /\ pageVariant = "DF"
  /\ route = "index"
  /\ dl = DlIdle
  /\ del = DelIdle
  /\ page = PageMounted("", "")
  /\ up1 = [c \in Clients |-> UpIdle1]
  /\ up2 = UpIdle2
  /\ fl = FlLoaded({})

NextUpload ==
  \/ \E c \in Clients, file \in {NoFile, File1},
        title \in Titles \cup {""}, code \in {"", "a"} :
        HandleUpload_Submit(c, file, title, code)
  \/ \E c \in Clients, failed \in BOOLEAN : HandleUpload_Checked(c, failed)
  \/ \E c \in Clients, failed \in BOOLEAN : HandleUpload_Stored(c, failed)
  \/ \E c \in Clients, failed \in BOOLEAN : HandleUpload_Inserted(c, failed)

\* two upload forms side by side
SpecUpload == InitUpload /\ [][NextUpload]_vars

NextRoundTrip ==
  \/ \E file \in {NoFile, File1, File2},
        title \in Titles \cup {""}, code \in SecretCodes \cup {""} :
        HandleUpload_Submit("c1", file, title, code)
  \/ \E failed \in BOOLEAN : HandleUpload_Checked("c1", failed)
  \/ \E failed \in BOOLEAN : HandleUpload_Stored("c1", failed)
  \/ \E failed \in BOOLEAN : HandleUpload_Inserted("c1", failed)
  \/ \E id \in DOMAIN created, code \in SuppliedCodes :
        DownloadFile_Click(id, code, FALSE)
  \/ \E failed \in BOOLEAN : DownloadFile_Lookup(failed)
  \/ \E failed \in BOOLEAN : DownloadFile_Storage(failed)

\* one upload form and the file list (first version) of the same page
SpecRoundTrip == InitUpload /\ [][NextRoundTrip]_vars

(* ------------------ single-file upload: properties -------------------- *)
\* C4: an upload whose title is already the title of a stored record when
\* the form is submitted gets no storage upload and no record insert,
\* whatever the existence query answers
C4_DuplicateRejectedBeforeWrite ==
  \A c \in Clients : up1[c].pc \in {"upload", "insert"} => ~up1[c].dup

\* C5: no two records of the record store have the same title
C5_TitlesUnique ==
  \A i, j \in DOMAIN records :
     i # j => records[i].title # records[j].title

\* C6: every stored single-file record points at the storage object that
\* holds the bytes it was uploaded with; a downloadFile run that meets the
\* record is granted with the secret code given at upload and denied with a
\* code that is neither that code nor the override code; the storage read
\* is at the record's file_path, and what is saved is the uploaded bytes
\* under the original file name
C6_RoundTrip ==
  /\ \A id \in DOMAIN records :
        /\ records[id].file_path \in DOMAIN objects
        /\ objects[records[id].file_path] = created[id].bytes
        /\ records[id].filename = created[id].name
  /\ dl.outcome \in {"granted", "denied"} =>
        /\ dl.code = created[dl.id].rec.secret_code => dl.outcome = "granted"
        /\ ~CodeAccepted(dl.id, dl.code) => dl.outcome = "denied"
  /\ dl.pc = "download" => dl.data.file_path = created[dl.id].rec.file_path
  /\ dl.saved # NoData =>
        /\ dl.saved.bytes = created[dl.id].bytes
        /\ dl.saved.filename = created[dl.id].name

\* a file without an extension went up and came back with its own code
C6_Witness ==
  /\ dl.saved # NoData
  /\ dl.saved.bytes = File2.bytes
  /\ dl.saved.filename = File2.name
  /\ dl.code = created[dl.id].rec.secret_code

(* ------------- FileUpload.handleUpload (folder-aware) ----------------- *)
\* the handler issues the upload of member i (1-based)
IssueMember(u, i) ==
  [u EXCEPT !.inflight = @ \cup {i}, !.issued = Append(@, i),
            !.issuedAt = Append(@, u.filesProcessed)]

\* all member uploads issued at once
LoopStart_AllAtOnce(u) ==
  [u EXCEPT !.inflight = 1..u.totalFiles,
            !.issued = [k \in 1..u.totalFiles |-> k],
            !.issuedAt = [k \in 1..u.totalFiles |-> 0]]

\* for (let i = 0; ...): the first iteration issues the first member upload
LoopStart(u) == IssueMember(u, 1)

\* the loop condition with the last member left out
LoopContinues_OffByOne(i, n) == i < n - 1

\* i < files.length, asked after member i (1-based) was processed
LoopContinues(i, n) == i < n

\* a member upload error rethrown
AbortsOnMemberError_Throw == TRUE

\* if (uploadError) { console.error(...) }: logged, nothing thrown
AbortsOnMemberError == FALSE

\* the percentage cut down to a whole number instead of rounded
Progress_Truncated(filesProcessed, totalFiles) ==
  (100 * filesProcessed) \div totalFiles

\* Math.round((filesProcessed / totalFiles) * 100)
Progress(filesProcessed, totalFiles) == MathRound100(filesProcessed, totalFiles)

\* the end of the try block without the progress reset
FinishUpload_NoReset(u) ==
  [u EXCEPT !.pc = "idle", !.files = <<>>, !.title = "", !.secretCode = "",
            !.isFolder = FALSE, !.isUploading = FALSE]

\* setFiles(null) ... setUploadProgress(0), setIsFolder(false), and finally
\* setIsUploading(false)
FinishUpload(u) ==
  [u EXCEPT !.pc = "idle", !.files = <<>>, !.title = "", !.secretCode = "",
            !.isFolder = FALSE, !.uploadProgress = 0, !.isUploading = FALSE]

\* the catch block without the finally block after it
FailUpload_NoFinally(u) ==
  [u EXCEPT !.pc = "idle", !.inflight = {}, !.toast = "Error"]

\* catch: error toast; finally: setIsUploading(false)
FailUpload(u) ==
  [u EXCEPT !.pc = "idle", !.inflight = {}, !.toast = "Error",
            !.isUploading = FALSE]

\* the test without the check for an empty selection
MissingInformationF_NoFilesCheck(n, title, code) == title = "" \/ code = ""

\* if (!files || files.length === 0 || !title || !secretCode)
MissingInformationF(n, title, code) == n = 0 \/ title = "" \/ code = ""

\* the form is submitted: validation, then the first request
HandleUploadF_Submit(n, title, code, isFolder) ==
  /\ route \in {"index", "folderForm"}
  /\ up2.pc = "idle"
  /\ n \in 0..MaxFiles
  /\ IF MissingInformationF(n, title, code)
     THEN /\ up2' = [up2 EXCEPT !.toast = "Missing information",
                                !.submitted = FormState(n = 0, title, code),
                                !.inserted = 0]
          /\ UNCHANGED nextUuid
     ELSE /\ nextUuid <= MaxUuid
          /\ up2.runs < MaxRuns
          /\ nextUuid' = nextUuid + 1
          /\ LET u == [UpIdle2 EXCEPT
                          !.runs = up2.runs + 1,
                          !.submitted = FormState(n = 0, title, code),
                          !.files = SubSeq(AllFiles, 1, n), !.title = title,
                          !.secretCode = code, !.isFolder = isFolder,
                          !.isUploading = TRUE, !.uploadProgress = 0] IN
             IF isFolder
             THEN up2' = [u EXCEPT !.pc = "folderInsert", !.totalFiles = n,
                                   !.folderId = Uuid(nextUuid)]
             ELSE up2' = [u EXCEPT !.pc = "upload",
                                   !.filePath = SingleFilePath(Uuid(nextUuid),
                                                               AllFiles[1].name)]
  /\ UNCHANGED <<records, objects, created, flVariant, pageVariant,
                 route, fl, dl, del, page, up1>>

\* the folder row written like a single file's row
FolderRecord_AsFile(u) ==
  [id |-> u.folderId, title |-> u.title, filename |-> <<u.title>>,
   file_path |-> FolderPath(u.folderId), secret_code |-> u.secretCode,
   is_folder |-> FALSE, file_count |-> 0]

\* the row inserted for a folder
FolderRecord(u) ==
  [id |-> u.folderId, title |-> u.title, filename |-> <<u.title>>,
   file_path |-> FolderPath(u.folderId), secret_code |-> u.secretCode,
   is_folder |-> TRUE, file_count |-> Len(u.files)]

\* the folder insert's error logged without the throw
AbortsOnFolderError_LogOnly == FALSE

\* if (folderDbError) { console.error(...); throw folderDbError; }
AbortsOnFolderError == TRUE

\* the folder row's insert answers: throw, or enter the upload loop
HandleUploadF_FolderInserted(failed) ==
  /\ up2.pc = "folderInsert"
  /\ IF failed /\ AbortsOnFolderError
     THEN /\ up2' = FailUpload(up2)
          /\ UNCHANGED <<records, created>>
     ELSE IF failed
     THEN /\ up2' = LoopStart([up2 EXCEPT !.pc = "loop"])
          /\ UNCHANGED <<records, created>>
     ELSE /\ records' = MapPut(records, up2.folderId, FolderRecord(up2))
          /\ created' = MapPut(created, up2.folderId,
                               History(FolderRecord(up2), "", <<>>))
          /\ up2' = LoopStart([up2 EXCEPT !.pc = "loop",
                                          !.inserted = @ + 1])
  /\ UNCHANGED <<objects, nextUuid, flVariant, pageVariant, route, fl, dl, del,
                 page, up1>>

\* a member upload settles (upsert: false, so an existing key fails): the
\* progress is updated, then the loop goes on or the run ends
HandleUploadF_MemberStored(i, failed) ==
  /\ up2.pc = "loop"
  /\ i \in up2.inflight
  /\ LET key == MemberPath(up2.folderId, up2.files[i].rel)
         err == failed \/ key \in DOMAIN objects
         done == up2.filesProcessed + 1
         u == [up2 EXCEPT !.inflight = @ \ {i},
                          !.failedFiles = IF err THEN @ \cup {i} ELSE @,
                          !.filesProcessed = done,
                          !.uploadProgress = Progress(done, up2.totalFiles),
                          !.reported = Append(@, Progress(done, up2.totalFiles))]
     IN
     /\ objects' = IF err THEN objects
                   ELSE MapPut(objects, key, up2.files[i].bytes)
     /\ IF err /\ AbortsOnMemberError
        THEN up2' = FailUpload(u)
        ELSE IF LoopContinues(i, Len(up2.files))
        THEN up2' = IssueMember(u, i + 1)
        ELSE up2' = FinishUpload([u EXCEPT !.toast = "Success!"])
  /\ UNCHANGED <<records, created, nextUuid, flVariant, pageVariant, route, fl,
                 dl, del, page, up1>>

\* the storage error of the single-file branch not looked at
AbortsOnUploadError_Ignored == FALSE

\* if (uploadError) throw uploadError;
AbortsOnUploadError == TRUE

\* single-file branch: storage.upload answers
HandleUploadF_Stored(failed) ==
  /\ up2.pc = "upload"
  /\ LET err == failed \/ up2.filePath \in DOMAIN objects IN
     IF err /\ AbortsOnUploadError
     THEN /\ up2' = FailUpload(up2)
          /\ UNCHANGED objects
     ELSE /\ up2' = [up2 EXCEPT !.pc = "insert"]
          /\ objects' = IF err THEN objects
                        ELSE MapPut(objects, up2.filePath, up2.files[1].bytes)
  /\ UNCHANGED <<records, created, nextUuid, flVariant, pageVariant, route, fl,
                 dl, del, page, up1>>

\* single-file branch: the insert answers
HandleUploadF_Inserted(failed) ==
  /\ up2.pc = "insert"
  /\ IF failed
     THEN /\ up2' = FailUpload(up2)
          /\ UNCHANGED <<records, created, nextUuid>>
     ELSE /\ nextUuid <= MaxUuid
          /\ LET id == Uuid(nextUuid)
                 rec == [id |-> id, title |-> up2.title,
                         filename |-> up2.files[1].name,
                         file_path |-> up2.filePath,
                         secret_code |-> up2.secretCode,
                         is_folder |-> FALSE, file_count |-> 0] IN
             /\ records' = MapPut(records, id, rec)
             /\ created' = MapPut(created, id,
                              History(rec, up2.files[1].bytes, up2.files[1].name))
          /\ nextUuid' = nextUuid + 1
          /\ up2' = FinishUpload([up2 EXCEPT !.toast = "Success!",
                                             !.inserted = @ + 1])
  /\ UNCHANGED <<objects, flVariant, pageVariant, route, fl, dl, del, page, up1>>

NextFolderUpload ==
  \/ \E n \in 0..MaxFiles, title \in {"", "t1"}, code \in {"", "a"},
        isFolder \in BOOLEAN : HandleUploadF_Submit(n, title, code, isFolder)
  \/ \E failed \in BOOLEAN : HandleUploadF_FolderInserted(failed)
  \/ \E i \in 1..MaxFiles, failed \in BOOLEAN : HandleUploadF_MemberStored(i, failed)
  \/ \E failed \in BOOLEAN : HandleUploadF_Stored(failed)
  \/ \E failed \in BOOLEAN : HandleUploadF_Inserted(failed)

\* the folder-aware upload form
SpecFolderUpload == InitUpload /\ [][NextFolderUpload]_vars

(* ------------------- folder upload: properties ------------------------ *)
\* the maximum batch size the design document gives as its example
MAX_BATCH_SIZE == 100

CeilDiv(n, b) == (n + b - 1) \div b

\* a batch is a group of uploads issued without waiting for any upload to
\* settle in between
NumBatches(u) == Cardinality({ u.issuedAt[k] : k \in 1..Len(u.issuedAt) })

\* the batch of member i when the members are cut into contiguous batches
BatchOf(i, b) == (i - 1) \div b + 1

\* a folder run went through its loop and ended with the success toast
FolderRunDone ==
  up2.pc = "idle" /\ up2.totalFiles > 0 /\ up2.filesProcessed > 0
  /\ up2.toast = "Success!"

InOrderOnce(u) == u.issued = [k \in 1..u.totalFiles |-> k]

C10_FailureDoesNotAbort ==
  /\ \A k, m \in 1..Len(up2.issued) : k # m => up2.issued[k] # up2.issued[m]
  /\ up2.filesProcessed = Len(up2.issued) - Cardinality(up2.inflight)
  /\ \A f \in up2.failedFiles :
        f \notin up2.inflight /\ \E k \in 1..Len(up2.issued) : up2.issued[k] = f
  /\ up2.pc = "loop" => up2.inflight # {}
  /\ (up2.failedFiles # {} /\ up2.pc = "idle") =>
        /\ up2.toast # "Error"
        /\ InOrderOnce(up2)
        /\ up2.filesProcessed = up2.totalFiles
        /\ up2.uploadProgress = 0

\* the first of three members failed and the other two were still uploaded
C10_Witness ==
  /\ up2.pc = "idle" /\ up2.failedFiles = {1} /\ up2.totalFiles = 3
  /\ up2.filesProcessed = 3
  /\ MemberPath(up2.folderId, File3.rel) \in DOMAIN objects

(* -------------- folder upload: the record and the keys ---------------- *)
\* the storage keys under the prefix of folder f
KeysUnder(f) == { k \in DOMAIN objects : IsPrefix(FolderPath(f) \o <<"/">>, k) }

FolderRecords == { i \in DOMAIN records : records[i].is_folder }

\* C11: while the folder of the current run has no record (the insert is
\* pending or has failed) no member upload is issued or in flight and no
\* object lies under its prefix; the step that receives the insert's error
\* ends the run with the failure notification, writes nothing, and leaves
\* no record for the folder
C11_FolderInsertFailureAborts ==
  /\ []((up2.totalFiles > 0 /\ up2.folderId \notin DOMAIN records) =>
          /\ up2.pc \in {"folderInsert", "idle"}
          /\ up2.issued = <<>> /\ up2.inflight = {}
          /\ up2.filesProcessed = 0
          /\ KeysUnder(up2.folderId) = {})
  /\ [][(up2.pc = "folderInsert" /\ up2'.pc # "loop") =>
          /\ up2'.pc = "idle" /\ up2'.toast = "Error"
          /\ ~up2'.isUploading
          /\ up2'.issued = <<>>
          /\ objects' = objects /\ records' = records
          /\ up2'.folderId \notin DOMAIN records']_vars

\* the second submission, a folder of three files, ended at the failed
\* insert
C11_Witness ==
  /\ up2.pc = "idle" /\ up2.runs = 2 /\ up2.totalFiles = 3
  /\ up2.toast = "Error" /\ up2.folderId \notin DOMAIN records
  /\ DOMAIN records # {}

\* C12: every storage object of a folder belongs to exactly one record, the
\* folder's (so no member has a record of its own); that record has
\* is_folder true, the key folders/<id> and file_count = the number of
\* files selected; the folder whose members are being uploaded has it
C12_OneRecordPerFolder ==
  /\ \A k \in DOMAIN objects :
        k[1] = "folders" =>
          /\ Cardinality({ i \in DOMAIN records :
                             IsPrefix(records[i].file_path, k) }) = 1
          /\ k[3] \in FolderRecords
  /\ \A i \in FolderRecords :
        /\ records[i].file_path = FolderPath(i)
        /\ records[i].file_count >= 1
        /\ Cardinality(KeysUnder(i)) <= records[i].file_count
  /\ Cardinality(FolderRecords) <= up2.runs
  /\ (up2.totalFiles > 0 /\ up2.issued # <<>>) =>
        /\ up2.folderId \in FolderRecords
        /\ records[up2.folderId].file_count = up2.totalFiles

\* two folders went up, the second with all three of its files
C12_Witness ==
  /\ Cardinality(FolderRecords) = 2
  /\ up2.pc = "idle" /\ up2.totalFiles = 3
  /\ Cardinality(KeysUnder(up2.folderId)) = 3
  /\ Cardinality(DOMAIN records) = 2

\* C13 as stated: every record refers to storage content that was uploaded:
\* a single-file record to its object, a folder record to an object for
\* each of its file_count members
C13_RecordsReferToUploaded ==
  \A id \in DOMAIN records :
     IF records[id].is_folder
     THEN \A m \in 1..records[id].file_count :
             MemberPath(id, AllFiles[m].rel) \in DOMAIN objects
     ELSE records[id].file_path \in DOMAIN objects

\* C13 (amended): a single-file record is inserted only after its storage
\* upload succeeded, so it refers to the object holding the uploaded bytes;
\* a folder record is there from before the first member upload and stays
\* whether or not the member uploads succeed
C13_FileRecordsReferToUploaded ==
  /\ \A id \in DOMAIN records \ FolderRecords :
        /\ records[id].file_path \in DOMAIN objects
        /\ objects[records[id].file_path] = created[id].bytes
  /\ up2.pc = "insert" =>
        /\ up2.filePath \in DOMAIN objects
        /\ objects[up2.filePath] = up2.files[1].bytes
  /\ (up2.totalFiles > 0 /\ (up2.issued # <<>> \/ up2.failedFiles # {})) =>
        up2.folderId \in FolderRecords

\* a single file went up, then a folder whose first member failed: both
\* records are in the store
C13_Witness ==
  /\ up2.pc = "idle" /\ up2.failedFiles = {1} /\ up2.totalFiles >= 2
  /\ up2.folderId \in FolderRecords
  /\ MemberPath(up2.folderId, File1.rel) \notin DOMAIN objects
  /\ DOMAIN records \ FolderRecords # {}

\* C14: with F the folder identifier, the object of the member with
\* relative path p is at key folders/F/p and nowhere else, the record's
\* file_path is folders/F, every member key lies under that prefix, and
\* members with different relative paths have different keys
C14_MemberKeys ==
  /\ \A i \in FolderRecords :
        /\ records[i].file_path = <<"folders", "/", i>>
        /\ \A k \in DOMAIN objects :
              (k[1] = "folders" /\ k[3] = i) =>
                /\ IsPrefix(records[i].file_path \o <<"/">>, k)
                /\ \E m \in 1..records[i].file_count :
                      /\ k = <<"folders", "/", i, "/">> \o AllFiles[m].rel
                      /\ objects[k] = AllFiles[m].bytes
  /\ \A k \in DOMAIN objects : k[1] = "folders" => k[3] \in FolderRecords
  /\ \A f \in {Uuid(n) : n \in 1..MaxUuid}, m, n \in 1..Len(AllFiles) :
        AllFiles[m].rel # AllFiles[n].rel
          => MemberPath(f, AllFiles[m].rel) # MemberPath(f, AllFiles[n].rel)
  /\ (up2.pc = "idle" /\ up2.totalFiles > 0 /\ up2.toast = "Success!") =>
        \A m \in 1..up2.totalFiles :
           m \notin up2.failedFiles =>
             <<"folders", "/", up2.folderId, "/">> \o AllFiles[m].rel
                \in DOMAIN objects

\* two folders with the same relative paths went up side by side in the
\* store: each has its own three keys
C14_Witness ==
  /\ Cardinality(FolderRecords) = 2
  /\ \A i \in FolderRecords : Cardinality(KeysUnder(i)) = 3

(* ------------------ both upload forms: validation --------------------- *)
\* the page carries one version of the upload form: the single-file form
\* (route "form", open in two tabs) or the folder-aware form (route
\* "folderForm")
InitForms ==
  /\ records = EmptyMap
  /\ objects = EmptyMap
  /\ created = EmptyMap
  /\ nextUuid = 1
  /\ flVariant = "FL1"
  /\ pageVariant = "DF"
  /\ route \in {"form", "folderForm"}
  /\ dl = DlIdle
  /\ del = DelIdle
  /\ page = PageMounted("", "")
  /\ up1 = [c \in Clients |-> UpIdle1]
  /\ up2 = UpIdle2
  /\ fl = FlLoaded({})

NextForms ==
  \/ \E c \in Clients, file \in {NoFile, File1},
        title \in Titles \cup {""}, code \in {"", "a"} :
        HandleUpload_Submit(c, file, title, code)
  \/ \E c \in Clients, failed \in BOOLEAN : HandleUpload_Checked(c, failed)
  \/ \E c \in Clients, failed \in BOOLEAN : HandleUpload_Stored(c, failed)
  \/ \E c \in Clients, failed \in BOOLEAN : HandleUpload_Inserted(c, failed)
  \/ \E n \in 0..MaxFiles, title \in {"", "t1"}, code \in {"", "a"},
        isFolder \in BOOLEAN : HandleUploadF_Submit(n, title, code, isFolder)
  \/ \E failed \in BOOLEAN : HandleUploadF_FolderInserted(failed)
  \/ \E i \in 1..MaxFiles, failed \in BOOLEAN : HandleUploadF_MemberStored(i, failed)
  \/ \E failed \in BOOLEAN : HandleUploadF_Stored(failed)
  \/ \E failed \in BOOLEAN : HandleUploadF_Inserted(failed)

\* either version of the upload form
SpecForms == InitForms /\ [][NextForms]_vars

\* C19: a submission with no file selected, or with an empty title or an
\* empty secret code, leaves the handler idle with isUploading false and
\* the missing-information notification, and the step that handles it
\* issues no request: it changes neither store, hands out no storage key
\* and puts no upload in flight
C19_ValidationBlocksUpload ==
  /\ [](\A c \in Clients :
          up1[c].submitted = "incomplete" =>
            /\ up1[c].pc = "idle" /\ ~up1[c].isUploading
            /\ up1[c].toast = "Missing information")
  /\ [](up2.submitted = "incomplete" =>
          /\ up2.pc = "idle" /\ ~up2.isUploading /\ up2.inflight = {}
          /\ up2.toast = "Missing information")
  /\ [][((up2'.submitted = "incomplete" /\ up2.pc = "idle" /\ up2' # up2)
          \/ (\E c \in Clients :
                /\ up1'[c].submitted = "incomplete" /\ up1[c].pc = "idle"
                /\ up1'[c] # up1[c]))
        => /\ records' = records /\ objects' = objects
           /\ nextUuid' = nextUuid
           /\ up2'.issued = up2.issued]_vars

\* after a folder went up, an incomplete form was submitted and refused
C19_Witness ==
  /\ up2.submitted = "incomplete" /\ up2.toast = "Missing information"
  /\ up2.pc = "idle" /\ up2.runs >= 1 /\ FolderRecords # {}

(* ------------------------ delete: properties -------------------------- *)
\* C15: when handleDelete has ended with its success notification for a
\* folder record, no storage object is left under the folder's prefix and
\* the record is gone
C15_FolderDeleteRemovesMembers ==
  (/\ del.pc = "idle"
   /\ del.toast = "File deleted successfully"
   /\ created[del.id].rec.is_folder)
    => /\ { k \in DOMAIN objects :
              IsPrefix(created[del.id].rec.file_path \o <<"/">>, k) } = {}
       /\ del.id \notin DOMAIN records

\* C16: in a delete whose code was accepted, the step that receives the
\* answer of the storage removal, an error included, goes on to the removal
\* of the record
C16_StorageFailureDoesNotStopDelete ==
  [][(del.pc = "remove" /\ del'.pc # "remove") => del'.pc = "dbdelete"]_vars

(* -------------------- folder download: properties --------------------- *)
\* the failure of an archive request is in front of the user: the
\* retry-later text is on screen (it is rendered only while isGeneratingZip
\* holds) or the failure toast is shown
FailureSurfaced(p) ==
  \/ p.isGeneratingZip
       /\ p.progressMessage = "Error creating ZIP file. Try again later."
  \/ p.toast = "Download Failed"

\* C17: a step issues an archive request only when it receives the answer
\* of a folder listing that succeeded with at least one entry; a listing
\* answer with no entry, or a failed one, is followed by no archive request,
\* and the empty listing is reported as an empty folder
C17_ArchiveOnlyAfterListing ==
  /\ [][page'.nArchive > page.nArchive =>
          /\ page'.nList < page.nList
          /\ ListEntries(objects, page.folderInfo.file_path) # {}
          /\ page'.progressMessage = "Creating ZIP archive..."]_vars
  /\ [][(page'.nList < page.nList
           /\ ListEntries(objects, page.folderInfo.file_path) = {})
          => /\ page'.nArchive = page.nArchive
             /\ page'.toast \in {"Empty Folder", "Download Failed"}]_vars

\* C18: the step that receives the answer of an archive request either
\* saves the archive of a successful answer, or (non-ok answer, or an
\* exception) saves nothing and leaves the failure in front of the user
C18_ArchiveFailureSurfaced ==
  [][page'.nArchive < page.nArchive =>
       \/ page'.savedZip /\ page'.progressMessage = "Download complete!"
       \/ /\ page'.savedZip = page.savedZip
          /\ FailureSurfaced(page')]_vars

(* ---------------- every user action: error reporting ------------------ *)
\* C20: a run in which a collaborator call answered with an error does not
\* end with the success notification: a folder upload with a failed member
\* upload ends with the failure notification
C20_NoErrorEndsInSuccess ==
  [][(up2.pc = "loop" /\ up2'.pc = "idle" /\ up2'.failedFiles # {})
       => up2'.toast = "Error"]_vars

(* ------------------ downloadFile: delivery properties ----------------- *)
\* C21: a downloadFile run whose fetch of the signed URL got the error
\* answer of the storage service (an expired link) saves nothing for the
\* user and does not end with the notification that the download started
C21_ExpiredLinkIsFailure ==
  /\ dl.saved # NoData => dl.saved.bytes # "ErrorBody"
  /\ dl.toast = "File download started" =>
       (dl.saved # NoData /\ dl.saved.bytes # "ErrorBody")

\* C23: once access is granted, on an iOS user agent the bytes are never
\* fetched (no storage download, no fetch of the signed URL, nothing saved)
\* and on any other platform no new tab is opened
C23_StrategyByPlatform ==
  dl.outcome = "granted" =>
    /\ dl.ios => (dl.pc \notin {"download", "fetch"} /\ dl.saved = NoData)
    /\ ~dl.ios => ~dl.opened

(* ------------------- folder page: access and runs --------------------- *)
\* C24: a listing or an archive request is in flight, or the download
\* button can be pressed with folderInfo set, only if checkAccess granted
\* access for the page's folderId and code: the record exists, the code is
\* its secret_code or the override code, and it is a folder; after any other
\* answer the page is in the error state with no request in flight
C24_RequestsOnlyAfterAccessCheck ==
  /\ (\/ page.nList > 0 \/ page.nArchive > 0
      \/ (page.pc = "ready" /\ ButtonOffered(page) /\ page.folderInfo # NoData))
       => /\ page.outcome = "granted"
          /\ CodeAccepted(page.folderId, page.code)
          /\ created[page.folderId].rec.is_folder
  /\ (page.pc = "ready" /\ page.outcome # "granted") =>
       /\ page.isError /\ ~ButtonOffered(page)
       /\ page.nList = 0 /\ page.nArchive = 0

\* C25: while a handleDownload run has a listing or an archive request in
\* flight isGeneratingZip holds and the button is not offered, and at most
\* one run is active
C25_OneRunAtATime ==
  /\ page.nList + page.nArchive > 0 =>
       (page.isGeneratingZip /\ ~ButtonOffered(page))
  /\ page.nList + page.nArchive <= 1

C29_DeleteOnlyAfterChecks ==
  [][/\ records' # records =>
          /\ del.pc = "dbdelete"
          /\ del.outcome = "granted"
          /\ CodeAccepted(del.id, del.code)
          /\ records' = MapDel(records, del.id)
     /\ (del.pc # "dbdelete" /\ del'.pc = "dbdelete") =>
          /\ del.pc = "remove"
          /\ del.outcome = "granted"
          /\ del.data.file_path \notin DOMAIN objects'
     /\ objects' # objects =>
          /\ del.pc = "remove"
          /\ del.outcome = "granted"
          /\ CodeAccepted(del.id, del.code)
     /\ (del.pc # "idle" /\ del'.pc = "idle"
         /\ del'.toast \in {"Failed to verify access", "Access Denied",
                            "Failed to delete file from storage"}) =>
          /\ records' = records
          /\ del.pc \in {"lookup", "remove"}
          /\ del.pc = "lookup" => objects' = objects
    ]_vars

\* a delete ran to its end: object and record are gone
C29_Witness ==
  /\ del.pc = "idle"
  /\ del.toast = "File deleted successfully"
  /\ del.code = "a"
  /\ del.id = Uuid(1)
  /\ del.id \notin DOMAIN records
  /\ StoredFile.file_path \notin DOMAIN objects

\* C26: in the FileList versions that carry the isDownloading flag,
\* downloadFile is not re-entrant: while a run is in progress the flag is
\* set, a call made then returns at its first line, and at most one call
\* is past the guard at any time
C26_DownloadNotReentrant ==
  flVariant \in Guarded =>
    /\ dl.pc # "idle" => dl.isDownloading
    /\ dl.entered <= 1
    /\ dl.refused => dl.entered = 1

\* a second call was refused while the fetch of the first was in flight
C26_Witness ==
  /\ flVariant = "FL2"
  /\ dl.pc = "fetch"
  /\ dl.refused
  /\ dl.entered = 1

\* the notifications of handleUpload other than the success one
FailureToasts == {"Error", "Missing information", "Duplicate title"}

InitBusy ==
  \/ InitForms
  \/ InitAccess /\ route = "index" /\ flVariant \in Guarded

NextBusy ==
  \/ route \in {"form", "folderForm"} /\ NextForms
  \/ /\ route = "index"
     /\ \/ \E id \in DOMAIN created, code \in SuppliedCodes, ios \in BOOLEAN :
              DownloadFile_Click(id, code, ios)
        \/ DownloadFile_ReClick
        \/ \E failed \in BOOLEAN : DownloadFile_Lookup(failed)
        \/ \E failed \in BOOLEAN : DownloadFile_SignedUrl(failed)
        \/ \E result \in {"ok", "errorResponse", "throw"} :
              DownloadFile_Fetch(result)

\* either version of the upload form, or a FileList version that carries
\* the isDownloading flag
SpecBusy == InitBusy /\ [][NextBusy]_vars

\* awaited calls a run has at most still to wait for
AwaitsLeft1(u) ==
  CASE u.pc = "check" -> 3
    [] u.pc = "upload" -> 2
    [] u.pc = "insert" -> 1
    [] OTHER -> 0

AwaitsLeft2(u) ==
  CASE u.pc = "folderInsert" -> u.totalFiles + 1
    [] u.pc = "loop" -> u.totalFiles - u.filesProcessed
    [] u.pc = "upload" -> 2
    [] u.pc = "insert" -> 1
    [] OTHER -> 0

AwaitsLeftDl(d) ==
  CASE d.pc = "lookup" -> 3
    [] d.pc \in {"signedUrl", "download"} -> 2
    [] d.pc = "fetch" -> 1
    [] OTHER -> 0

\* C27: a run of handleUpload (single-file form, folder-aware form) or of
\* the guarded downloadFile that has finished, by whichever exit, has left
\* its busy flag false; and a run finishes after a bounded number of
\* awaited answers: every answer takes the run strictly closer to its end
C27_BusyFlagCleared ==
  /\ [](\A c \in Clients : up1[c].pc = "idle" => ~up1[c].isUploading)
  /\ [](up2.pc = "idle" => ~up2.isUploading)
  /\ [](dl.pc = "idle" => ~dl.isDownloading)
  /\ [][/\ \A c \in Clients :
             (up1[c].pc # "idle" /\ up1'[c] # up1[c]) =>
                AwaitsLeft1(up1'[c]) < AwaitsLeft1(up1[c])
        /\ (up2.pc # "idle" /\ up2' # up2) =>
             AwaitsLeft2(up2') < AwaitsLeft2(up2)
        /\ (dl.pc # "idle" /\ dl'.pc # dl.pc) =>
             AwaitsLeftDl(dl') < AwaitsLeftDl(dl)
       ]_vars

\* a folder run ended in the catch block after the folder row's insert
\* failed, and the form is usable again
C27_Witness ==
  /\ up2.pc = "idle"
  /\ up2.runs = 1
  /\ up2.isFolder
  /\ up2.toast = "Error"
  /\ ~up2.isUploading

\* C28: once every loadFiles call has answered, none of those made since
\* the last change of the search text with an error, the list shown is the
\* result of the query for the search text now in the box
C28_LatestSearchShown ==
  (fl.pending = <<>> /\ ~fl.failed) => fl.files = SelectIlike(fl.searchQuery)

====
